---- MODULE Spec2Model ----
(***************************************************************************)
(* A model of src/src/tool/.ipynb_checkpoints/MobileNetV2-checkpoint.py:   *)
(* channel rounding, the inverted residual block, the network assembler,   *)
(* the forward pass (as shape propagation) and the pretrained loader.      *)
(*                                                                         *)
(* Numbers that are floats in the source (the width multiplier and every   *)
(* value c * width_mult) are kept exactly, in hundredths: width_mult = 100 *)
(* is 1.0, and a target value v is the integer v100 = 100 * v.             *)
(***************************************************************************)
EXTENDS Integers, Sequences, FiniteSets, TLC

VARIABLES
    pc,               \* position of the running call
    rv, rdiv, rres,   \* _make_divisible: v (hundredths), divisor, returned value
    bargs, blk, bout, \* InvertedResidual: constructor arguments, the block, last forward
    width_mult,       \* MobileNetV2.__init__ argument (hundredths)
    input_channel, output_channel, layers, layers2, row, rep, \* locals of __init__
    self,             \* the MobileNetV2 instance under construction / built
    calls,            \* the _make_divisible calls of the current build, in order
    prev,             \* the instance built by the previous MobileNetV2(width_mult) call
    fwd,              \* result of MobileNetV2.forward
    pretrained,       \* mnv2_model.pretrained
    checkpoint,       \* what load_state_dict_from_url returned
    err               \* the exception that ended the call, if any

roundVars == <<rv, rdiv, rres>>
blockVars == <<bargs, blk, bout>>
buildVars == <<width_mult, input_channel, output_channel, layers, layers2, row, rep,
               self, calls, prev, fwd>>
loadVars  == <<pretrained, checkpoint, err>>
vars == <<pc, roundVars, blockVars, buildVars, loadVars>>

-----------------------------------------------------------------------------
(* Bounds of the model *)

\* largest sampled rounding target, in tenths (2000.0)
MaxVTenths == 20000
\* constructor strides tried on a block: 0 .. MaxStride
MaxStride == 3
\* longest checkpoint (number of entries) the loader is given
MaxCkpt == 2

\* width multipliers tried, in hundredths (0.1, 0.25, 0.35, 0.5, 0.75, 1.0, 1.4, 2.0)
WidthMults == {10, 25, 35, 50, 75, 100, 140, 200}
\* spatial sizes of the input tensors tried
InputSizes == {32, 33, 64}
\* channel counts tried on a single block
BlockChannels == {8, 16}
\* expansion ratios tried on a single block
ExpandRatios == {1, 6}

-----------------------------------------------------------------------------
(* _make_divisible *)

Max(a, b) == IF a >= b THEN a ELSE b

\* int(v + divisor / 2) for v = v100 / 100 >= 0
IntOfHalfUp(v100, divisor) == (v100 + 50 * divisor) \div 100

\* new_v < 0.9 * v
BelowNinety(new_v, v100) == 1000 * new_v < 9 * v100

\* the argument left at its default, min_value=None
None == -1

MakeDivisibleNoGuard(v100, divisor, min_value) ==
    LET floor == IF min_value = None THEN divisor ELSE min_value
    IN  Max(floor, (IntOfHalfUp(v100, divisor) \div divisor) * divisor)

_make_divisible(v100, divisor, min_value) ==
    LET floor == IF min_value = None THEN divisor ELSE min_value
        new_v == Max(floor, (IntOfHalfUp(v100, divisor) \div divisor) * divisor)
    IN  IF BelowNinety(new_v, v100) THEN new_v + divisor ELSE new_v

-----------------------------------------------------------------------------
(* Layers and tensors: a tensor is its shape [c, h, w], the batch dimension *)
(* left out (no layer here changes or reads it); ErrShape is the            *)
(* RuntimeError a layer raises on a tensor it cannot take.                  *)

ErrShape == [c |-> -1, h |-> -1, w |-> -1]

Conv2d(inp, oup, k, s, p, g) ==
    [kind |-> "Conv2d", inp |-> inp, oup |-> oup, k |-> k, s |-> s, p |-> p, groups |-> g]
BatchNorm2d(c) ==
    [kind |-> "BatchNorm2d", inp |-> c, oup |-> c, k |-> 0, s |-> 0, p |-> 0, groups |-> 0]
ReLU6 ==
    [kind |-> "ReLU6", inp |-> 0, oup |-> 0, k |-> 0, s |-> 0, p |-> 0, groups |-> 0]

\* a 3-layer Sequential, as a module of the network
conv_3x3_bn(inp, oup, stride) ==
    [type |-> "Sequential", identity |-> FALSE, err |-> "",
     conv |-> <<Conv2d(inp, oup, 3, stride, 1, 1), BatchNorm2d(oup), ReLU6>>]

conv_1x1_bn(inp, oup) ==
    [type |-> "Sequential", identity |-> FALSE, err |-> "",
     conv |-> <<Conv2d(inp, oup, 1, 1, 0, 1), BatchNorm2d(oup), ReLU6>>]

LayerForward(l, x) ==
    IF x = ErrShape THEN ErrShape
    ELSE IF l.kind = "Conv2d" THEN
        IF x.c # l.inp \/ l.s < 1 \/ x.h + 2 * l.p < l.k \/ x.w + 2 * l.p < l.k
        THEN ErrShape
        ELSE [c |-> l.oup,
              h |-> (x.h + 2 * l.p - l.k) \div l.s + 1,
              w |-> (x.w + 2 * l.p - l.k) \div l.s + 1]
    ELSE IF l.kind = "BatchNorm2d" THEN
        IF x.c # l.inp THEN ErrShape ELSE x
    ELSE x

RECURSIVE SequentialForward(_, _)
SequentialForward(ls, x) ==
    IF ls = <<>> THEN x ELSE SequentialForward(Tail(ls), LayerForward(Head(ls), x))

\* x + y with broadcasting of size-1 dimensions
BroadcastDim(a, b) == IF a = b THEN a ELSE IF a = 1 THEN b ELSE IF b = 1 THEN a ELSE -1
TensorAdd(x, y) ==
    IF x = ErrShape \/ y = ErrShape THEN ErrShape
    ELSE LET s == [c |-> BroadcastDim(x.c, y.c), h |-> BroadcastDim(x.h, y.h),
                   w |-> BroadcastDim(x.w, y.w)]
         IN  IF s.c = -1 \/ s.h = -1 \/ s.w = -1 THEN ErrShape ELSE s

-----------------------------------------------------------------------------
(* InvertedResidual *)

NoBlock == [type |-> "none", identity |-> FALSE, err |-> "", conv |-> <<>>]

\* assert stride in [1, 2]
StrideAnything(stride) == TRUE
StrideOk(stride) == stride \in {1, 2}

\* self.identity = stride == 1 and inp == oup
IdentityStrideOnly(inp, oup, stride) == stride = 1
Identity(inp, oup, stride) == stride = 1 /\ inp = oup

BlockLayers(inp, oup, stride, expand_ratio) ==
    LET hidden_dim == inp * expand_ratio
    IN  IF expand_ratio = 1
        THEN << Conv2d(hidden_dim, hidden_dim, 3, stride, 1, hidden_dim),
                BatchNorm2d(hidden_dim), ReLU6,
                Conv2d(hidden_dim, oup, 1, 1, 0, 1), BatchNorm2d(oup) >>
        ELSE << Conv2d(inp, hidden_dim, 1, 1, 0, 1), BatchNorm2d(hidden_dim), ReLU6,
                Conv2d(hidden_dim, hidden_dim, 3, stride, 1, hidden_dim),
                BatchNorm2d(hidden_dim), ReLU6,
                Conv2d(hidden_dim, oup, 1, 1, 0, 1), BatchNorm2d(oup) >>

InvertedResidual(inp, oup, stride, expand_ratio) ==
    IF ~StrideOk(stride)
    THEN [type |-> "InvertedResidual", identity |-> FALSE, err |-> "AssertionError",
          conv |-> <<>>]
    ELSE [type |-> "InvertedResidual", identity |-> Identity(inp, oup, stride),
          err |-> "", conv |-> BlockLayers(inp, oup, stride, expand_ratio)]

\* InvertedResidual.forward: the tensor returned, the tensor self.conv(x)
\* produced, and whether the addition x + self.conv(x) was evaluated
BlockForward(b, x) ==
    LET y == SequentialForward(b.conv, x)
    IN  IF b.identity
        THEN [x |-> TensorAdd(x, y), conv |-> y, added |-> y # ErrShape]
        ELSE [x |-> y, conv |-> y, added |-> FALSE]

\* forward of a module of the network: a block or a plain Sequential
ModuleForward(m, x) ==
    IF m.type = "InvertedResidual" THEN BlockForward(m, x).x
    ELSE SequentialForward(m.conv, x)

-----------------------------------------------------------------------------
(* Parameter names: a dotted name is the sequence of its pieces, every dot  *)
(* a piece of its own ("features.0.0.weight" is                             *)
(* <<"features", ".", "0", ".", "0", ".", "weight">>), so that str.replace  *)
(* acts on it as it does on the string.                                     *)

Tok(i) == ToString(i)

IsPrefix(p, s) == Len(p) <= Len(s) /\ SubSeq(s, 1, Len(p)) = p

\* Python's s.replace(old, new): every non-overlapping occurrence, left to right
RECURSIVE Replace(_, _, _)
Replace(s, old, new) ==
    IF s = <<>> THEN <<>>
    ELSE IF IsPrefix(old, s)
         THEN new \o Replace(SubSeq(s, Len(old) + 1, Len(s)), old, new)
         ELSE <<Head(s)>> \o Replace(Tail(s), old, new)

\* n1 = k1.replace('module.', '')
StripModule(k1) == Replace(k1, <<"module", ".">>, <<>>)

\* a name with the 'module.' prefix stripped: only a leading 'module.' removed
StripLeading(k1) ==
    IF IsPrefix(<<"module", ".">>, k1) THEN SubSeq(k1, 3, Len(k1)) ELSE k1

\* the four replace calls applied to an internal name k2
RenameCollapsed(k2) ==
    LET a == Replace(k2, <<"features2", ".", "0", ".">>, <<"features", ".", "14", ".">>)
        b == Replace(a,  <<"features2", ".", "1", ".">>, <<"features", ".", "14", ".">>)
        c == Replace(b,  <<"features2", ".", "2", ".">>, <<"features", ".", "16", ".">>)
    IN  Replace(c, <<"features2", ".", "3", ".">>, <<"features", ".", "17", ".">>)
Rename(k2) ==
    LET a == Replace(k2, <<"features2", ".", "0", ".">>, <<"features", ".", "14", ".">>)
        b == Replace(a,  <<"features2", ".", "1", ".">>, <<"features", ".", "15", ".">>)
        c == Replace(b,  <<"features2", ".", "2", ".">>, <<"features", ".", "16", ".">>)
    IN  Replace(c, <<"features2", ".", "3", ".">>, <<"features", ".", "17", ".">>)

-----------------------------------------------------------------------------
(* The parameter store: state_dict() of the network, name -> tensor.  A     *)
(* tensor is [src, key, shape]: where its value comes from (a draw of the   *)
(* initializer, a constant, a checkpoint entry), under which name, and its  *)
(* shape.                                                                   *)

Tensor(src, key, shape) == [src |-> src, key |-> key, shape |-> shape]

\* the entries one layer contributes under the name prefix p, with the values
\* _initialize_weights (conv weight, norm weight and bias) or the layer's
\* constructor (the norm's buffers) gave them
LayerEntries(p, l) ==
    IF l.kind = "Conv2d" THEN
        { Tensor("normal", p \o <<"weight">>, <<l.oup, l.inp \div l.groups, l.k, l.k>>) }
    ELSE IF l.kind = "BatchNorm2d" THEN
        { Tensor("ones",   p \o <<"weight">>, <<l.oup>>),
          Tensor("zeros",  p \o <<"bias">>, <<l.oup>>),
          Tensor("buffer", p \o <<"running_mean">>, <<l.oup>>),
          Tensor("buffer", p \o <<"running_var">>, <<l.oup>>),
          Tensor("buffer", p \o <<"num_batches_tracked">>, <<>>) }
    ELSE {}

ModuleEntries(p, m) ==
    LET q == IF m.type = "InvertedResidual" THEN p \o <<"conv", ".">> ELSE p
    IN  UNION { LayerEntries(q \o <<Tok(i - 1), ".">>, m.conv[i]) : i \in 1..Len(m.conv) }

NetEntries(features, features2, conv) ==
    UNION { ModuleEntries(<<"features", ".", Tok(j - 1), ".">>, features[j]) :
              j \in 1..Len(features) }
    \cup UNION { ModuleEntries(<<"features2", ".", Tok(j - 1), ".">>, features2[j]) :
              j \in 1..Len(features2) }
    \cup ModuleEntries(<<"conv", ".">>, conv)

\* _initialize_weights: the store after construction
InitialStateDict(features, features2, conv) ==
    LET es == NetEntries(features, features2, conv)
    IN  [k \in {e.key : e \in es} |-> CHOOSE e \in es : e.key = k]

-----------------------------------------------------------------------------
(* MobileNetV2 *)

\* t, c, n, s
Cfgs1 ==
    << <<1, 16, 1, 1>>, <<6, 24, 2, 2>>, <<6, 32, 3, 2>>, <<6, 64, 4, 2>>, <<6, 96, 3, 1>> >>
Cfgs2 ==
    << <<6, 160, 3, 2>>, <<6, 320, 1, 1>> >>

NoNet == [cfgs1 |-> <<>>, cfgs2 |-> <<>>, features |-> <<>>, features2 |-> <<>>,
          conv |-> NoBlock, params |-> <<>>]

\* 4 if width_mult == 0.1 else 8
DivisorAlways4(wm) == 4
ChannelDivisor(wm) == IF wm = 10 THEN 4 ELSE 8

\* one call _make_divisible(c * width_mult, 4 if width_mult == 0.1 else 8), as logged
RoundingCall(c, wm) ==
    [v |-> c * wm, d |-> ChannelDivisor(wm),
     r |-> _make_divisible(c * wm, ChannelDivisor(wm), None)]

\* s if i == 0 else 1
BlockStrideRow(s, i) == s
BlockStride(s, i) == IF i = 0 THEN s ELSE 1

\* for i in range(n): was i the last index
RowDoneLate(i, n) == i = n
RowDone(i, n) == i + 1 = n

\* the block's input channels after layers.append(...): input_channel = output_channel
Thread(input_ch, output_ch) == output_ch

\* _make_divisible(1280 * width_mult, ...) if width_mult > 1.0 else 1280
FinalChannelsAlwaysRounded(wm) == _make_divisible(1280 * wm, ChannelDivisor(wm), None)
FinalChannels(wm) ==
    IF wm > 100 THEN _make_divisible(1280 * wm, ChannelDivisor(wm), None) ELSE 1280

\* MobileNetV2.forward in progress: the input, the running tensor x, the index
\* of the next module of the Sequential being evaluated, and x1, x2 once set
NoForward == [called |-> FALSE, input |-> ErrShape, x |-> ErrShape, at |-> 0,
              x1 |-> ErrShape, x2 |-> ErrShape]

-----------------------------------------------------------------------------
(* Values of the variables a call does not use *)

NoError == [type |-> "", msg |-> <<>>]
NoArgs == [inp |-> 0, oup |-> 0, stride |-> 0, expand_ratio |-> 0]
NoOut == [called |-> FALSE, input |-> ErrShape, x |-> ErrShape, conv |-> ErrShape,
          added |-> FALSE]
NonePretrained == [none |-> TRUE, s |-> ""]

IdleRound == rv = 0 /\ rdiv = 0 /\ rres = 0
IdleBlock == bargs = NoArgs /\ blk = NoBlock /\ bout = NoOut
IdleBuild ==
    /\ width_mult = 100 /\ input_channel = 0 /\ output_channel = 0
    /\ layers = <<>> /\ layers2 = <<>> /\ row = 0 /\ rep = 0
    /\ self = NoNet /\ calls = <<>> /\ prev = NoNet /\ fwd = NoForward
IdleLoad == pretrained = NonePretrained /\ checkpoint = <<>> /\ err = NoError

-----------------------------------------------------------------------------
(* Calls of _make_divisible on sampled targets *)

\* the c of every c * width_mult the assembler rounds
TableChannels == {32, 1280} \cup {Cfgs1[i][2] : i \in 1..Len(Cfgs1)}
                            \cup {Cfgs2[i][2] : i \in 1..Len(Cfgs2)}

RoundTargets == {10 * k : k \in 1..MaxVTenths}
                \cup {c * w : c \in TableChannels, w \in WidthMults}

InitRound ==
    /\ pc = "round_start"
    /\ rv \in RoundTargets /\ rdiv \in {4, 8} /\ rres = 0
    /\ IdleBlock /\ IdleBuild /\ IdleLoad

RoundCall ==
    /\ pc = "round_start"
    /\ rres' = _make_divisible(rv, rdiv, None)
    /\ pc' = "round_done"
    /\ UNCHANGED <<rv, rdiv, blockVars, buildVars, loadVars>>

NextRound == RoundCall
SpecRound == InitRound /\ [][NextRound]_vars

-----------------------------------------------------------------------------
(* One InvertedResidual block: construction, then forward evaluations *)

InitBlock ==
    /\ pc = "blk_start"
    /\ bargs \in [inp : BlockChannels, oup : BlockChannels, stride : 0..MaxStride,
                  expand_ratio : ExpandRatios]
    /\ blk = NoBlock /\ bout = NoOut
    /\ IdleRound /\ IdleBuild /\ IdleLoad

ConstructBlock ==
    /\ pc = "blk_start"
    /\ LET b == InvertedResidual(bargs.inp, bargs.oup, bargs.stride, bargs.expand_ratio)
       IN  IF b.err # ""
           THEN /\ pc' = "blk_raised"
                /\ err' = [type |-> b.err, msg |-> <<>>]
                /\ UNCHANGED blk
           ELSE /\ pc' = "blk_built"
                /\ blk' = b
                /\ UNCHANGED err
    /\ UNCHANGED <<bargs, bout, roundVars, buildVars, pretrained, checkpoint>>

ForwardBlock ==
    /\ pc = "blk_built"
    /\ \E c \in BlockChannels, h \in InputSizes, w \in InputSizes :
         LET x == [c |-> c, h |-> h, w |-> w]
             r == BlockForward(blk, x)
         IN  bout' = [called |-> TRUE, input |-> x, x |-> r.x, conv |-> r.conv,
                      added |-> r.added]
    /\ UNCHANGED <<pc, bargs, blk, roundVars, buildVars, loadVars>>

NextBlock == ConstructBlock \/ ForwardBlock
SpecBlock == InitBlock /\ [][NextBlock]_vars

-----------------------------------------------------------------------------
(* MobileNetV2.__init__, step by step *)

other == <<roundVars, blockVars, pretrained, checkpoint>>

BuildStem ==
    /\ pc = "start"
    /\ LET call == RoundingCall(32, width_mult)
       IN  /\ input_channel' = call.r
           /\ calls' = <<call>>
           /\ layers' = <<conv_3x3_bn(3, call.r, 2)>>
    /\ self' = [NoNet EXCEPT !.cfgs1 = Cfgs1, !.cfgs2 = Cfgs2]
    /\ row' = 1 /\ rep' = 0
    /\ pc' = "rows1"
    /\ UNCHANGED <<width_mult, output_channel, layers2, prev, fwd, err, other>>

\* for t, c, n, s in cfgs: output_channel = _make_divisible(c * width_mult, ...)
NextRow(cfgs, here, body) ==
    /\ pc = here
    /\ row <= Len(cfgs)
    /\ LET call == RoundingCall(cfgs[row][2], width_mult)
       IN  /\ output_channel' = call.r
           /\ calls' = Append(calls, call)
    /\ rep' = 0
    /\ pc' = body
    /\ UNCHANGED <<width_mult, input_channel, layers, layers2, row, self, prev, fwd,
                   err, other>>

\* for i in range(n): append block(input_channel, output_channel, s if i == 0 else 1, t)
AppendBlock(cfgs, ls, here, back) ==
    /\ pc = here
    /\ LET t == cfgs[row][1]
           n == cfgs[row][3]
           s == cfgs[row][4]
           b == InvertedResidual(input_channel, output_channel, BlockStride(s, rep), t)
       IN  IF b.err # ""
           THEN /\ pc' = "raised"
                /\ err' = [type |-> b.err, msg |-> <<>>]
                /\ self' = NoNet
                /\ UNCHANGED <<input_channel, layers, layers2, row, rep>>
           ELSE /\ IF ls = 1
                   THEN layers' = Append(layers, b) /\ UNCHANGED layers2
                   ELSE layers2' = Append(layers2, b) /\ UNCHANGED layers
                /\ input_channel' = Thread(input_channel, output_channel)
                /\ IF RowDone(rep, n)
                   THEN pc' = back /\ row' = row + 1 /\ rep' = 0
                   ELSE pc' = here /\ rep' = rep + 1 /\ UNCHANGED row
                /\ UNCHANGED <<self, err>>
    /\ UNCHANGED <<width_mult, output_channel, calls, prev, fwd, other>>

NextRow1 == NextRow(self.cfgs1, "rows1", "blocks1")
AppendBlock1 == AppendBlock(self.cfgs1, 1, "blocks1", "rows1")

\* self.features = nn.Sequential(*layers); layers2 = list()
EndFeatures ==
    /\ pc = "rows1"
    /\ row > Len(self.cfgs1)
    /\ self' = [self EXCEPT !.features = layers]
    /\ layers2' = <<>>
    /\ row' = 1
    /\ pc' = "rows2"
    /\ UNCHANGED <<width_mult, input_channel, output_channel, layers, rep, calls, prev,
                   fwd, err, other>>

NextRow2 == NextRow(self.cfgs2, "rows2", "blocks2")
AppendBlock2 == AppendBlock(self.cfgs2, 2, "blocks2", "rows2")

\* self.features2, the final projection, self._initialize_weights()
Finish ==
    /\ pc = "rows2"
    /\ row > Len(self.cfgs2)
    /\ output_channel' = FinalChannels(width_mult)
    /\ calls' = IF width_mult > 100 THEN Append(calls, RoundingCall(1280, width_mult))
                ELSE calls
    /\ LET conv == conv_1x1_bn(input_channel, output_channel')
       IN  self' = [self EXCEPT !.features2 = layers2, !.conv = conv,
                                !.params = InitialStateDict(self.features, layers2, conv)]
    /\ pc' = "built"
    /\ UNCHANGED <<width_mult, input_channel, layers, layers2, row, rep, prev, fwd,
                   err, other>>

fwdFrame == <<width_mult, input_channel, output_channel, layers, layers2, row, rep,
              self, calls, prev, other>>

\* MobileNetV2.forward is called on an image batch of 3 channels
ForwardStart ==
    /\ pc = "built"
    /\ \E h \in InputSizes, w \in InputSizes :
         LET x == [c |-> 3, h |-> h, w |-> w]
         IN  fwd' = [NoForward EXCEPT !.input = x, !.x = x, !.at = 1]
    /\ pc' = "forward1"
    /\ UNCHANGED <<err, fwdFrame>>

\* one module of a Sequential applied to the running tensor; a layer that
\* cannot take its input raises
SequentialStep(ms, here, next) ==
    /\ pc = here
    /\ LET y == ModuleForward(ms[fwd.at], fwd.x)
       IN  IF y = ErrShape
           THEN /\ pc' = "raised"
                /\ err' = [type |-> "RuntimeError", msg |-> <<>>]
                /\ fwd' = [fwd EXCEPT !.x = y]
           ELSE /\ UNCHANGED err
                /\ IF fwd.at < Len(ms)
                   THEN pc' = here /\ fwd' = [fwd EXCEPT !.x = y, !.at = fwd.at + 1]
                   ELSE pc' = next /\
                        fwd' = [fwd EXCEPT !.x = y, !.at = 1,
                                           !.x1 = IF here = "forward1" THEN y ELSE fwd.x1]
    /\ UNCHANGED fwdFrame

\* x1 = self.features(x)
ForwardFeatures == SequentialStep(self.features, "forward1", "forward2")
\* x2 = self.features2(x1)
ForwardFeatures2 == SequentialStep(self.features2, "forward2", "forward3")

\* x2 = self.conv(x2); return x1, x2
ForwardConv ==
    /\ pc = "forward3"
    /\ LET y == ModuleForward(self.conv, fwd.x)
       IN  IF y = ErrShape
           THEN /\ pc' = "raised"
                /\ err' = [type |-> "RuntimeError", msg |-> <<>>]
                /\ fwd' = [fwd EXCEPT !.x = y]
           ELSE /\ pc' = "built"
                /\ fwd' = [fwd EXCEPT !.x = y, !.x2 = y, !.called = TRUE]
                /\ UNCHANGED err
    /\ UNCHANGED fwdFrame

\* a second MobileNetV2(width_mult) call; the first instance is kept
Rebuild ==
    /\ pc = "built"
    /\ prev = NoNet
    /\ prev' = self
    /\ self' = NoNet /\ fwd' = NoForward /\ calls' = <<>>
    /\ input_channel' = 0 /\ output_channel' = 0
    /\ layers' = <<>> /\ layers2' = <<>> /\ row' = 0 /\ rep' = 0
    /\ pc' = "start"
    /\ UNCHANGED <<width_mult, err, other>>

Init ==
    /\ pc = "start"
    /\ width_mult \in WidthMults
    /\ input_channel = 0 /\ output_channel = 0
    /\ layers = <<>> /\ layers2 = <<>> /\ row = 0 /\ rep = 0
    /\ self = NoNet /\ calls = <<>> /\ prev = NoNet /\ fwd = NoForward
    /\ IdleRound /\ IdleBlock /\ IdleLoad

Next ==
    \/ BuildStem \/ NextRow1 \/ AppendBlock1 \/ EndFeatures
    \/ NextRow2 \/ AppendBlock2 \/ Finish
    \/ ForwardStart \/ ForwardFeatures \/ ForwardFeatures2 \/ ForwardConv
    \/ Rebuild

Spec == Init /\ [][Next]_vars

-----------------------------------------------------------------------------
(* mnv2_model.mobilenetv2: model = MobileNetV2(), then the pretrained load *)

\* self.pretrained: None, the empty string, or a locator
Pretraineds == { NonePretrained, [none |-> FALSE, s |-> ""],
                 [none |-> FALSE, s |-> "https://host/mobilenetv2.pth"] }

\* if self.pretrained:
Truthy(p) == ~p.none /\ p.s # ""
\* "{}".format(p)
Str(p) == IF p.none THEN "None" ELSE p.s

\* the names bound where line 192 is evaluated: the method's locals and the
\* module's globals
LoaderLocals == {"self", "kwargs", "model"}
ModuleGlobals == {"nn", "math", "torch", "__all__", "load_state_dict_from_url",
                  "_make_divisible", "conv_3x3_bn", "conv_1x1_bn", "InvertedResidual",
                  "MobileNetV2", "mnv2_model"}

MissingSourceMessage(p) == <<"darknet request a pretrained path. got [", Str(p), "]">>

\* raise Exception("darknet request a pretrained path. got [{}]".format(pretrained))
RaiseMissingSource(p) ==
    IF "pretrained" \in LoaderLocals \cup ModuleGlobals
    THEN [type |-> "Exception", msg |-> MissingSourceMessage(p)]
    ELSE [type |-> "NameError", msg |-> <<"name 'pretrained' is not defined">>]

\* entries a fetched checkpoint may hold: names with and without the
\* distributed-training prefix, names of the 0..17 addressing, names the network
\* does not have, and one tensor of another size
CheckpointEntries ==
    { Tensor("checkpoint", <<"module", ".", "features", ".", "0", ".", "0", ".", "weight">>,
             <<32, 3, 3, 3>>),
      Tensor("checkpoint", <<"features", ".", "0", ".", "0", ".", "weight">>,
             <<32, 3, 3, 3>>),
      Tensor("checkpoint", <<"features", ".", "0", ".", "module", ".", "0", ".", "weight">>,
             <<32, 3, 3, 3>>),
      Tensor("checkpoint", <<"features", ".", "14", ".", "conv", ".", "0", ".", "weight">>,
             <<576, 96, 1, 1>>),
      Tensor("checkpoint", <<"features", ".", "17", ".", "conv", ".", "0", ".", "weight">>,
             <<960, 160, 1, 1>>),
      Tensor("checkpoint", <<"features2", ".", "0", ".", "conv", ".", "0", ".", "weight">>,
             <<576, 96, 1, 1>>),
      Tensor("checkpoint", <<"features", ".", "18", ".", "0", ".", "weight">>,
             <<1280, 320, 1, 1>>),
      Tensor("checkpoint", <<"conv", ".", "0", ".", "weight">>, <<1280, 320, 1, 1>>),
      Tensor("checkpoint", <<"conv", ".", "1", ".", "weight">>, <<320>>),
      Tensor("checkpoint", <<"classifier", ".", "weight">>, <<1000, 1280>>) }

\* a checkpoint: its items in iteration order, no name twice
Checkpoints ==
    UNION { { c \in [1..n -> CheckpointEntries] :
                \A i \in 1..n, j \in 1..n : i # j => c[i].key # c[j].key } :
            n \in 0..MaxCkpt }

\* for k2, v2 in model_dict.items(): n2 = ...; if n1 == n2: model_dict[k2] = v1
CopyEntry(model_dict, e) ==
    [k2 \in DOMAIN model_dict |->
        IF StripModule(e.key) = Rename(k2) THEN e ELSE model_dict[k2]]

\* for k1, v1 in checkpoint.items(): ...
RECURSIVE CopyAll(_, _)
CopyAll(model_dict, ck) ==
    IF ck = <<>> THEN model_dict ELSE CopyAll(CopyEntry(model_dict, Head(ck)), Tail(ck))

\* model.load_state_dict(model_dict) raises on a tensor of another size
SizeMismatch(params, model_dict) ==
    \E k \in DOMAIN params : model_dict[k].shape # params[k].shape

loadFrame == <<width_mult, input_channel, output_channel, layers, layers2, row, rep,
               calls, prev, fwd, roundVars, blockVars>>

\* if self.pretrained: ... else: raise
LoaderMissingSource ==
    /\ pc = "built"
    /\ ~Truthy(pretrained)
    /\ err' = RaiseMissingSource(pretrained)
    /\ pc' = "raised"
    /\ UNCHANGED <<self, pretrained, checkpoint, loadFrame>>

\* checkpoint = load_state_dict_from_url(self.pretrained, progress=True)
LoaderFetch ==
    /\ pc = "built"
    /\ Truthy(pretrained)
    /\ \E ck \in Checkpoints : checkpoint' = ck
    /\ pc' = "fetched"
    /\ UNCHANGED <<self, pretrained, err, loadFrame>>

\* the fetch fails: the exception reaches the caller
LoaderFetchFails ==
    /\ pc = "built"
    /\ Truthy(pretrained)
    /\ err' = [type |-> "FetchError", msg |-> <<>>]
    /\ pc' = "raised"
    /\ UNCHANGED <<self, pretrained, checkpoint, loadFrame>>

\* the two loops, model.load_state_dict(model_dict), return model
LoaderCopy ==
    /\ pc = "fetched"
    /\ LET model_dict == CopyAll(self.params, checkpoint)
       IN  IF SizeMismatch(self.params, model_dict)
           THEN /\ err' = [type |-> "RuntimeError", msg |-> <<"size mismatch">>]
                /\ pc' = "raised"
                /\ UNCHANGED self
           ELSE /\ self' = [self EXCEPT !.params = model_dict]
                /\ pc' = "loaded"
                /\ UNCHANGED err
    /\ UNCHANGED <<pretrained, checkpoint, loadFrame>>

InitLoad ==
    /\ pc = "start"
    /\ width_mult = 100
    /\ pretrained \in Pretraineds
    /\ checkpoint = <<>> /\ err = NoError
    /\ input_channel = 0 /\ output_channel = 0
    /\ layers = <<>> /\ layers2 = <<>> /\ row = 0 /\ rep = 0
    /\ self = NoNet /\ calls = <<>> /\ prev = NoNet /\ fwd = NoForward
    /\ IdleRound /\ IdleBlock

NextLoad ==
    \/ BuildStem \/ NextRow1 \/ AppendBlock1 \/ EndFeatures
    \/ NextRow2 \/ AppendBlock2 \/ Finish
    \/ LoaderMissingSource \/ LoaderFetch \/ LoaderFetchFails \/ LoaderCopy

SpecLoad == InitLoad /\ [][NextLoad]_vars

-----------------------------------------------------------------------------
(* What the claims read off a network *)

\* out_channels of a module: of its last convolution or normalization
OutChannels(m) ==
    LET idx == {i \in 1..Len(m.conv) : m.conv[i].kind # "ReLU6"}
        last == CHOOSE i \in idx : \A j \in idx : j <= i
    IN  m.conv[last].oup
\* in_channels of a module: of its first convolution
InChannels(m) == m.conv[1].inp
\* stride of a block: of its 3x3 depthwise convolution
StrideOf(m) ==
    LET i == CHOOSE j \in 1..Len(m.conv) : m.conv[j].kind = "Conv2d" /\ m.conv[j].k = 3
    IN  m.conv[i].s

BlockCount(ms) == Cardinality({i \in 1..Len(ms) : ms[i].type = "InvertedResidual"})

\* sum of the repeat counts n of the first r rows of a table
RECURSIVE SumRepeats(_, _)
SumRepeats(cfgs, r) == IF r = 0 THEN 0 ELSE SumRepeats(cfgs, r - 1) + cfgs[r][3]

ChannelSeq(net) ==
    LET ms == net.features \o net.features2 \o <<net.conv>>
    IN  [i \in 1..Len(ms) |-> OutChannels(ms[i])]

\* the modules built so far, in order: the stem, then every block
BuiltModules == layers \o layers2

-----------------------------------------------------------------------------
(* C1 *)

\* C1: _make_divisible with the default min_value returns, for every sampled
\* target v > 0 and divisor d in {4, 8}, a positive multiple of d that is not
\* smaller than 0.9 * v; round(32, 8) = 32 and round(1, 8) = 8.
C1_RoundingContract ==
    pc = "round_done" =>
        /\ rres > 0
        /\ rres % rdiv = 0
        /\ 1000 * rres >= 9 * rv
        /\ (rv = 3200 /\ rdiv = 8 => rres = 32)
        /\ (rv = 100 /\ rdiv = 8 => rres = 8)

\* the 10% guard fired: 11.9 rounds down to 8 and is bumped to 16
C1_Witness == pc = "round_done" /\ rv = 1190 /\ rdiv = 8 /\ rres = 16

-----------------------------------------------------------------------------
(* C5, C6 *)

\* the block is constructed: what holds of its flag and of its last forward
C5_FlagAndAddition ==
    pc = "blk_built" =>
        /\ blk.identity <=> (bargs.stride = 1 /\ bargs.inp = bargs.oup)
        /\ bout.called =>
            /\ bout.added => blk.identity
            /\ (blk.identity /\ bout.conv # ErrShape) =>
                 /\ bout.added
                 /\ bout.conv.c = bout.input.c
                 /\ bout.conv.h = bout.input.h
                 /\ bout.conv.w = bout.input.w
                 /\ bout.x # ErrShape

\* C5: the identity flag set at construction holds iff stride = 1 and
\* inp = oup; forward adds x + conv(x) only when the flag holds, and then x
\* and conv(x) have the same channel count and spatial size; the flag never
\* changes after construction.
C5_IdentityFlag ==
    /\ []C5_FlagAndAddition
    /\ [][pc = "blk_built" => blk'.identity = blk.identity]_vars

\* a block with the flag set has evaluated the residual addition
C5_Witness ==
    /\ pc = "blk_built" /\ blk.identity /\ bout.called /\ bout.added
    /\ bout.x = bout.input

-----------------------------------------------------------------------------
(* C4, C7, C8, C10 *)

\* C4: for every width multiplier forward returns a pair (x1, x2): x1 has the
\* rounded output channels of the last table-1 row, x2 the final projection
\* channel count, which is 1280 for width_mult <= 1.0 and the rounded
\* 1280 * width_mult above (96 and 1280 at width_mult = 1.0).
C4_ForwardOutput ==
    /\ pc # "raised"
    /\ fwd.called =>
        /\ fwd.x1.c = _make_divisible(Cfgs1[Len(Cfgs1)][2] * width_mult,
                                     IF width_mult = 10 THEN 4 ELSE 8, None)
        /\ fwd.x2.c = IF width_mult <= 100 THEN 1280
                      ELSE _make_divisible(1280 * width_mult, 8, None)
        /\ fwd.x1.c = OutChannels(self.features[Len(self.features)])
        /\ fwd.x2.c = OutChannels(self.conv)
        /\ (width_mult = 100 => fwd.x1.c = 96 /\ fwd.x2.c = 1280)

\* forward returned at width_mult = 1.0 on a 64 x 64 image
C4_Witness ==
    /\ pc = "built" /\ fwd.called /\ width_mult = 100
    /\ fwd.input = [c |-> 3, h |-> 64, w |-> 64]
    /\ fwd.x1 = [c |-> 96, h |-> 4, w |-> 4]
    /\ fwd.x2 = [c |-> 1280, h |-> 2, w |-> 2]

\* C7: two builds with the same width multiplier have identical channel-count
\* sequences and block counts, and the number of inverted residual blocks is
\* the sum of the repeat counts of the tables: 13, 4, 17 in total.
C7_DeterminismAndCount ==
    pc = "built" =>
        /\ BlockCount(self.features) = SumRepeats(Cfgs1, Len(Cfgs1))
        /\ BlockCount(self.features2) = SumRepeats(Cfgs2, Len(Cfgs2))
        /\ BlockCount(self.features) = 13
        /\ BlockCount(self.features2) = 4
        /\ BlockCount(self.features \o self.features2) = 17
        /\ prev # NoNet =>
            /\ ChannelSeq(prev) = ChannelSeq(self)
            /\ BlockCount(prev.features) = BlockCount(self.features)
            /\ BlockCount(prev.features2) = BlockCount(self.features2)

\* the second build with width_mult = 0.35 is complete
C7_Witness ==
    /\ pc = "built" /\ prev # NoNet /\ width_mult = 35
    /\ Len(ChannelSeq(self)) = 19 /\ ChannelSeq(prev)[14] = 32

\* the blocks of row r of a table are, among the blocks bs built for it so
\* far, at offsets SumRepeats(r - 1) + 1 .. SumRepeats(r)
RowStrides(cfgs, bs) ==
    \A r \in 1..Len(cfgs) :
        \A i \in 1..cfgs[r][3] :
            LET j == SumRepeats(cfgs, r - 1) + i
            IN  j <= Len(bs) => StrideOf(bs[j]) = (IF i = 1 THEN cfgs[r][4] ELSE 1)

\* C8: in every row only the first block has the row's stride, the others
\* stride 1, so that every block's stride is 1 or 2 and the assertion never
\* fires; every block's input channels are the output channels of the module
\* built just before it, across rows and stages, and the final projection's
\* input is the last second-stage block's output.
C8_StrideAndThreading ==
    /\ err.type # "AssertionError"
    /\ layers # <<>> =>
        /\ RowStrides(Cfgs1, Tail(layers))
        /\ RowStrides(Cfgs2, layers2)
        /\ \A j \in 2..Len(BuiltModules) :
            /\ StrideOf(BuiltModules[j]) \in {1, 2}
            /\ InChannels(BuiltModules[j]) = OutChannels(BuiltModules[j - 1])
    /\ pc = "built" =>
        /\ self.features = layers /\ self.features2 = layers2
        /\ InChannels(self.conv) = OutChannels(layers2[Len(layers2)])

\* both stages are built at width_mult = 0.5: the second block of the first
\* second-stage row has stride 1 and takes the 80 channels of the block before
C8_Witness ==
    /\ pc = "built" /\ width_mult = 50 /\ Len(layers2) = 4
    /\ StrideOf(layers2[1]) = 2 /\ StrideOf(layers2[2]) = 1
    /\ InChannels(layers2[1]) = 48 /\ InChannels(layers2[2]) = 80

\* C10: every channel count of the network (stem, blocks, final projection)
\* is a positive multiple of the divisor, which is 4 when the width
\* multiplier is exactly 0.1 and 8 otherwise, the same in every rounding call
\* of a build.
C10_DivisorInvariant ==
    LET d == IF width_mult = 10 THEN 4 ELSE 8
    IN  /\ \A i \in 1..Len(calls) :
            calls[i].d = d /\ calls[i].r > 0 /\ calls[i].r % d = 0
        /\ \A j \in 1..Len(BuiltModules) :
            OutChannels(BuiltModules[j]) > 0 /\ OutChannels(BuiltModules[j]) % d = 0
        /\ input_channel % d = 0 /\ output_channel % d = 0
        /\ pc = "built" => OutChannels(self.conv) > 0 /\ OutChannels(self.conv) % d = 0

\* a network of width_mult = 0.1 is built on divisor 4: its stem has 4 channels
C10_Witness ==
    /\ pc = "built" /\ width_mult = 10
    /\ OutChannels(self.features[1]) = 4 /\ OutChannels(self.conv) = 1280
    /\ Len(calls) = 8

-----------------------------------------------------------------------------
(* C2, C3, C9 *)

\* C2: invoked with an absent or empty source locator, the loader raises the
\* explicit missing-source error, whose message echoes the source value, and
\* returns no network.
C2_MissingSourceError ==
    (pc \in {"raised", "fetched", "loaded"} /\ ~Truthy(pretrained)) =>
        /\ pc = "raised"
        /\ err = [type |-> "Exception", msg |-> MissingSourceMessage(pretrained)]

\* C3: after loading, every internal parameter whose renamed name equals an
\* external name with the leading 'module.' stripped holds that external
\* tensor, and every other internal parameter holds its initializer-assigned
\* value.
C3_CopyFrameRule ==
    pc = "loaded" =>
        LET initial == InitialStateDict(self.features, self.features2, self.conv)
        IN  \A k2 \in DOMAIN self.params :
                LET m == {i \in 1..Len(checkpoint) :
                            StripLeading(checkpoint[i].key) = Rename(k2)}
                IN  IF m # {}
                    THEN \E i \in m : self.params[k2] = checkpoint[i]
                    ELSE self.params[k2] = initial[k2]

FirstStageName(k) == k[1] = "features"
SecondStageName(k) == k[1] = "features2"

\* the names of the built network and the renaming rule on them
C9_Names ==
    LET keys == DOMAIN self.params
    IN  /\ Len(self.features) = 14
        /\ self.features[1].type = "Sequential"
        /\ \A j \in 2..14 : self.features[j].type = "InvertedResidual"
        /\ Len(self.features2) = 4
        /\ \A k \in keys :
            /\ FirstStageName(k) => k[3] \in {Tok(j) : j \in 0..13}
            /\ IF SecondStageName(k)
               THEN \E j \in 0..3 :
                      /\ k[3] = Tok(j)
                      /\ Rename(k) = <<"features", ".", Tok(14 + j)>> \o SubSeq(k, 4, Len(k))
               ELSE Rename(k) = k
        /\ Cardinality({Rename(k) : k \in keys}) = Cardinality(keys)
        /\ {Rename(k) : k \in {l \in keys : SecondStageName(l)}}
             \cap {l \in keys : FirstStageName(l)} = {}

\* C9: the first stage holds 14 entries (stem at 0, blocks at 1-13) and the
\* second 4 (0-3); the renaming rule rewrites every second-stage name to
\* features.14-17, leaves every other name unchanged and is injective on the
\* internal names, no renamed second-stage name being a first-stage name; so
\* each external parameter is copied into at most one internal slot.
C9_RenamingInjective ==
    /\ pc = "built" => C9_Names
    /\ pc = "loaded" =>
         \A i \in 1..Len(checkpoint) :
            Cardinality({k \in DOMAIN self.params : self.params[k] = checkpoint[i]}) <= 1

\* a checkpoint entry named in the 14..17 addressing was copied into the
\* second stage's first block
C9_Witness ==
    /\ pc = "loaded"
    /\ \E i \in 1..Len(checkpoint) :
         /\ checkpoint[i].key = <<"features", ".", "14", ".", "conv", ".", "0", ".", "weight">>
         /\ self.params[<<"features2", ".", "0", ".", "conv", ".", "0", ".", "weight">>]
              = checkpoint[i]

====
